---- MODULE Spec2Model ----
(***************************************************************************)
(* Model of the config-expression language of faux_python_scripting:       *)
(* decompose_script (lexer), _parse_node / _parse_args (parser),           *)
(* extract_quote, and _evaluate_program / _run_func (evaluator).           *)
(*                                                                         *)
(* Conventions.  A Python str is a sequence of one-character strings, so   *)
(* that splitting, joining and substring tests are computed and not        *)
(* assumed.  Indices (char_idx, word_index, prog_idx) keep Python's        *)
(* 0-based numbering; element i of a list l is l[i + 1] here.  A Python    *)
(* value is a record [t, n, d, i, s, m]: t is the type tag, n/d a          *)
(* normalised fraction (numbers), i tells an int from a float, s the text  *)
(* (str), m the set of <<key, value>> pairs (dict).                        *)
(***************************************************************************)
EXTENDS Integers, Sequences, FiniteSets, TLC

VARIABLES
  phase,        \* "lex" | "parse" | "quote" | "eval" | "done"
  script,       \* decompose_script: the text
  char_idx,     \* decompose_script: loop index
  word_list,    \* decompose_script: tokens emitted; the parser's input
  word_buffer,  \* decompose_script: the growing word
  word_index,   \* parser cursor
  program,      \* top-level instruction list
  pstack,       \* the _parse_args activations in progress, innermost last
  started,      \* whether the parser's first, unconditional call was made
  call_in,      \* cursor given to the last completed _parse_node call (-1: none)
  call_out,     \* cursor that call returned
  last_node,    \* node that call returned
  global_var,   \* evaluation context
  frames,       \* the activations of _evaluate_program, outermost first
  outcome       \* [ok, val, err]: result of the run once phase = "done"

vars == <<phase, script, char_idx, word_list, word_buffer, word_index, program,
          pstack, started, call_in, call_out, last_node, global_var, frames,
          outcome>>

lexVars == <<script, char_idx, word_list, word_buffer>>
parseVars == <<word_index, program, pstack, started, call_in, call_out, last_node>>
evalVars == <<frames>>

-----------------------------------------------------------------------------
(* Bounds of the model *)

\* longest script drawn over LexAlphabet
MaxScriptLen == 3
\* longest token list handed to the parser directly
MaxTokens == 4
\* longest free-form instruction list handed to the evaluator directly
MaxProgLen == 2
\* most operators in a Literal (Operator Literal)* instruction list
MaxOps == 2
\* list capacity: an append to a list already holding MaxNodes nodes fails
\* with MemoryError (the memory of the machine is finite)
MaxNodes == 6

-----------------------------------------------------------------------------
(* Characters and strings *)

\* the characters of the model in code-point order
ASCII_ORDER ==
  <<"\t", "\n", " ", "\"", "#", "'", "(", ")", "*", "+", ",", "-", ".", "/",
    "0", "1", "2", "3", "4", "5", "6", "7", "8", "9", ":", "=", "@", "[", "]",
    "_", "a", "b", "c", "d", "e", "f", "g", "h", "i", "j", "k", "l", "m", "n",
    "o", "p", "q", "r", "s", "t", "u", "v", "w", "x", "y", "z", "{", "}">>

Ord(c) == CHOOSE k \in 1..Len(ASCII_ORDER) : ASCII_ORDER[k] = c

DIGITS == <<"0", "1", "2", "3", "4", "5", "6", "7", "8", "9">>

isdigit(c) == \E k \in 1..Len(DIGITS) : DIGITS[k] = c

DigitVal(c) == (CHOOSE k \in 1..Len(DIGITS) : DIGITS[k] = c) - 1

isalpha(c) == Ord("a") <= Ord(c) /\ Ord(c) <= Ord("z")

\* Python's `c in s` for a one-character c and a str s
CharIn(c, s) == \E k \in 1..Len(s) : s[k] = c

\* Python's `w in s` for two strs: w occurs in s as a substring
SubstrIn(w, s) ==
  \E k \in 1..(Len(s) + 1) :
     /\ k + Len(w) - 1 <= Len(s)
     /\ SubSeq(s, k, k + Len(w) - 1) = w

RECURSIVE Join(_)
\* "".join(list)
Join(l) == IF l = <<>> THEN <<>> ELSE Head(l) \o Join(Tail(l))

RECURSIVE SplitFrom(_, _, _)
SplitFrom(s, sep, acc) ==
  IF s = <<>> THEN <<acc>>
  ELSE IF Head(s) = sep THEN <<acc>> \o SplitFrom(Tail(s), sep, <<>>)
  ELSE SplitFrom(Tail(s), sep, Append(acc, Head(s)))

\* s.split(sep) for a one-character separator
Split(s, sep) == SplitFrom(s, sep, <<>>)

VAR_KW ==
  { <<"d","e","f">>, <<"i","f">>, <<"e","l","s","e">>, <<"e","l","i","f">>,
    <<"a","n","d">>, <<"o","r">>, <<"n","o","t">>, <<"i","n">>, <<"f","o","r">> }
WORD_CHAR == <<"_">>
MATH_KW == <<"+", "-", "*", "/", "=">>
QUOTE == <<"\"", "'">>
PUNCTUATION == <<"(", ")", ",", ":", "[", "]", ".", "}", "{", "\"", "'", "#">>
WHITE_SPACE == <<"\t", " ">>
LINE_BREAK == <<"\n">>


-----------------------------------------------------------------------------
(* Python values *)

RECURSIVE GCD(_, _)
GCD(a, b) == IF b = 0 THEN a ELSE GCD(b, a % b)

Abs(x) == IF x < 0 THEN -x ELSE x

NoneValue == [t |-> "none", n |-> 0, d |-> 1, i |-> FALSE, s |-> <<>>, m |-> {}]

\* the number n/d (d # 0), in lowest terms with a positive denominator
Num(n, d, isint) ==
  LET g == GCD(Abs(n), Abs(d))
      sg == IF d < 0 THEN -1 ELSE 1
  IN [t |-> "num", n |-> sg * (n \div g), d |-> sg * (d \div g), i |-> isint,
      s |-> <<>>, m |-> {}]

IntV(k) == Num(k, 1, TRUE)
FloatV(n, d) == Num(n, d, FALSE)
StrV(text) == [t |-> "str", n |-> 0, d |-> 1, i |-> FALSE, s |-> text, m |-> {}]
DictV(pairs) == [t |-> "dict", n |-> 0, d |-> 1, i |-> FALSE, s |-> <<>>, m |-> pairs]

\* outcomes of a call: a returned value, or the exception raised
Ret(v) == [ok |-> TRUE, val |-> v, err |-> "none"]
Raise(e) == [ok |-> FALSE, val |-> NoneValue, err |-> e]
Pending == [ok |-> FALSE, val |-> NoneValue, err |-> "pending"]

\* Exception classes the source names without defining them; the language's
\* two error kinds stand for them.
RuntimeException == "RuntimeError"
InvalidSyntaxException == "SyntaxError"
\* class InvalidFythonSyntaxException(ValueError)
InvalidFythonSyntaxException == "SyntaxError"

-----------------------------------------------------------------------------
(* decompose_script *)

CharAt(i) == script[i + 1]

IsWordChar(c) == isalpha(c) \/ isdigit(c) \/ CharIn(c, WORD_CHAR)
IsSeparatorChar(c) == CharIn(c, MATH_KW) \/ CharIn(c, PUNCTUATION) \/ CharIn(c, LINE_BREAK)
IsWhiteSpaceChar(c) == CharIn(c, WHITE_SPACE)

\* `if len(word_buffer) > 0: word_list.append("".join(word_buffer))`
FlushInto(wl, wb) == IF Len(wb) > 0 THEN Append(wl, wb) ELSE wl

RECURSIVE RunLast(_, _, _)
\* the inner while of the whitespace branch: the index of the last character
\* of the run of c that starts at index i
RunLast(text, i, c) ==
  IF i + 1 < Len(text) /\ text[i + 2] = c THEN RunLast(text, i + 1, c) ELSE i

\* the buffer the whitespace branch leaves behind: [char] plus one entry per
\* further character of the run; it is appended to word_list and kept
WhitespaceBuffer(c, first, last) == [k \in 1..(last - first + 1) |-> c]

LexWordChar ==
  /\ phase = "lex"
  /\ char_idx < Len(script)
  /\ IsWordChar(CharAt(char_idx))
  /\ word_buffer' = Append(word_buffer, CharAt(char_idx))
  /\ char_idx' = char_idx + 1
  /\ UNCHANGED <<phase, script, word_list, parseVars, global_var, evalVars, outcome>>

LexSeparator ==
  /\ phase = "lex"
  /\ char_idx < Len(script)
  /\ ~IsWordChar(CharAt(char_idx))
  /\ IsSeparatorChar(CharAt(char_idx))
  /\ word_list' = Append(FlushInto(word_list, word_buffer), <<CharAt(char_idx)>>)
  /\ word_buffer' = IF Len(word_buffer) > 0 THEN <<>> ELSE word_buffer
  /\ char_idx' = char_idx + 1
  /\ UNCHANGED <<phase, script, parseVars, global_var, evalVars, outcome>>

LexWhitespace ==
  /\ phase = "lex"
  /\ char_idx < Len(script)
  /\ ~IsWordChar(CharAt(char_idx))
  /\ ~IsSeparatorChar(CharAt(char_idx))
  /\ IsWhiteSpaceChar(CharAt(char_idx))
  /\ LET c == CharAt(char_idx)
         last == RunLast(script, char_idx, c)
         buf == WhitespaceBuffer(c, char_idx, last)
     IN /\ word_buffer' = buf
        /\ word_list' = Append(FlushInto(word_list, word_buffer), buf)
        /\ char_idx' = last + 1
  /\ UNCHANGED <<phase, script, parseVars, global_var, evalVars, outcome>>

LexIllegal ==
  /\ phase = "lex"
  /\ char_idx < Len(script)
  /\ ~IsWordChar(CharAt(char_idx))
  /\ ~IsSeparatorChar(CharAt(char_idx))
  /\ ~IsWhiteSpaceChar(CharAt(char_idx))
  /\ phase' = "done"
  /\ outcome' = Raise(InvalidFythonSyntaxException)
  /\ UNCHANGED <<lexVars, parseVars, global_var, evalVars>>

\* the end of the loop: the remaining buffer is flushed and the list returned
\* (to evaluate_script, which hands it to the parser)
LexReturn ==
  /\ phase = "lex"
  /\ char_idx >= Len(script)
  /\ word_list' = FlushInto(word_list, word_buffer)
  /\ phase' = "parse"
  /\ UNCHANGED <<script, char_idx, word_buffer, parseVars, global_var, evalVars, outcome>>

decompose_script == LexWordChar \/ LexSeparator \/ LexWhitespace \/ LexIllegal \/ LexReturn


-----------------------------------------------------------------------------
(* Literal recognisers.  FUNCTION_KW, CLOCK_REGEX, FLOAT_REGEX,             *)
(* DURATION_REGEX, _parse_24h_clock, _parse_duration and                   *)
(* time.normalize_time are used by _parse_node and defined nowhere in the  *)
(* source; they follow the language description: built-ins min, max and    *)
(* lookup; HH:MM clock times; digits with '_' separators and an optional   *)
(* fraction; digits followed by a unit s, m or h.                          *)

FUNCTION_KW == { <<"m","i","n">>, <<"m","a","x">>, <<"l","o","o","k","u","p">> }

RECURSIVE Digits(_)
\* the non-negative integer written by a sequence of digits (0 for none)
Digits(w) ==
  IF w = <<>> THEN 0 ELSE 10 * Digits(SubSeq(w, 1, Len(w) - 1)) + DigitVal(w[Len(w)])

RECURSIVE Pow10(_)
Pow10(k) == IF k = 0 THEN 1 ELSE 10 * Pow10(k - 1)

AllDigits(w) == \A k \in 1..Len(w) : isdigit(w[k])

MatchesClock(word) ==
  /\ Len(word) = 5
  /\ word[3] = ":"
  /\ AllDigits(SubSeq(word, 1, 2))
  /\ AllDigits(SubSeq(word, 4, 5))

\* seconds since midnight
ParseClock(word) == IntV(3600 * Digits(SubSeq(word, 1, 2)) + 60 * Digits(SubSeq(word, 4, 5)))

\* "".join(word.split("_"))
StripUnderscores(word) == Join(Split(word, "_"))

MatchesFloat(word) ==
  LET parts == Split(StripUnderscores(word), ".")
  IN /\ Len(word) > 0
     /\ isdigit(word[1])
     /\ isdigit(word[Len(word)])
     /\ Len(parts) <= 2
     /\ \A k \in 1..Len(parts) : AllDigits(parts[k]) /\ Len(parts[k]) > 0

\* float(text) for a text MatchesFloat accepts
ParseFloat(text) ==
  LET parts == Split(text, ".")
  IN IF Len(parts) = 1 THEN FloatV(Digits(parts[1]), 1)
     ELSE FloatV(Digits(parts[1]) * Pow10(Len(parts[2])) + Digits(parts[2]),
                 Pow10(Len(parts[2])))

UnitSeconds(c) == IF c = "s" THEN 1 ELSE IF c = "m" THEN 60 ELSE 3600

MatchesDuration(word) ==
  /\ Len(word) >= 2
  /\ word[Len(word)] \in {"s", "m", "h"}
  /\ AllDigits(SubSeq(word, 1, Len(word) - 1))

\* seconds
ParseDuration(word) ==
  IntV(Digits(SubSeq(word, 1, Len(word) - 1)) * UnitSeconds(word[Len(word)]))

\* the canonical form of a keyword is the keyword
NormalizeKeyword(word) == StrV(word)

-----------------------------------------------------------------------------
(* _parse_node, _parse_args and the top-level loop *)

Node(type, value, args) == [type |-> type, value |-> value, args |-> args]
VarNode(v) == Node("var", v, <<>>)
PuncNode(word) == Node("punc", StrV(word), <<>>)
ArithNode(word) == Node("arithmatic", StrV(word), <<>>)
FuncNode(word, args) == Node("func", StrV(word), args)
NoNode == Node("none", NoneValue, <<>>)

IsPunc(node, c) == node.type = "punc" /\ node.value = StrV(<<c>>)

\* the branches of _parse_node other than the function branch: the node built
\* and the cursor returned (the final else builds its node and leaves
\* word_index as it was given)
ParseLeaf(word, idx) ==
  IF SubstrIn(word, PUNCTUATION) THEN [node |-> PuncNode(word), idx |-> idx + 1]
  ELSE IF SubstrIn(word, MATH_KW) THEN [node |-> ArithNode(word), idx |-> idx + 1]
  ELSE IF MatchesClock(word) THEN [node |-> VarNode(ParseClock(word)), idx |-> idx + 1]
  ELSE IF MatchesFloat(word)
    THEN [node |-> VarNode(ParseFloat(StripUnderscores(word))), idx |-> idx + 1]
  ELSE IF MatchesDuration(word) THEN [node |-> VarNode(ParseDuration(word)), idx |-> idx + 1]
  ELSE IF word \in VAR_KW THEN [node |-> VarNode(NormalizeKeyword(word)), idx |-> idx + 1]
  ELSE [node |-> VarNode(StrV(word)), idx |-> idx]

IsFallback(word) ==
  /\ ~SubstrIn(word, PUNCTUATION) /\ ~SubstrIn(word, MATH_KW) /\ ~MatchesClock(word)
  /\ ~MatchesFloat(word) /\ ~MatchesDuration(word) /\ word \notin VAR_KW

\* an activation of _parse_args: the function word, the cursor its _parse_node
\* was given, whether "(" was seen ("open" once it was, "closed" once ")" was),
\* and the lists args and prog
Frame(word, idx) ==
  [func |-> word, call_in |-> idx, state |-> "new", args |-> <<>>, prog |-> <<>>]

\* list.append under the capacity of the machine
CanAppend(l) == Len(l) < MaxNodes

\* what the caller of a _parse_node call does with the node it returned:
\* the top-level loop appends it to program; _parse_args first expects "(",
\* then routes nodes into prog, closes an argument on "," and stops on ")"
Consume(stack, prog, node) ==
  IF stack = <<>>
  THEN IF CanAppend(prog)
       THEN [pstack |-> stack, program |-> Append(prog, node), err |-> "none"]
       ELSE [pstack |-> stack, program |-> prog, err |-> "MemoryError"]
  ELSE LET f == stack[Len(stack)]
           put(g) == [stack EXCEPT ![Len(stack)] = g]
       IN IF f.state = "new"
          THEN IF IsPunc(node, "(")
               THEN [pstack |-> put([f EXCEPT !.state = "open"]), program |-> prog,
                     err |-> "none"]
               ELSE [pstack |-> stack, program |-> prog, err |-> InvalidSyntaxException]
          ELSE IF IsPunc(node, ",")
            THEN [pstack |-> put([f EXCEPT !.args = Append(f.args, f.prog), !.prog = <<>>]),
                  program |-> prog, err |-> "none"]
          ELSE IF IsPunc(node, ")")
            THEN [pstack |-> put([f EXCEPT !.state = "closed"]), program |-> prog,
                  err |-> "none"]
          ELSE IF CanAppend(f.prog)
            THEN [pstack |-> put([f EXCEPT !.prog = Append(f.prog, node)]),
                  program |-> prog, err |-> "none"]
          ELSE [pstack |-> stack, program |-> prog, err |-> "MemoryError"]

\* a _parse_node call is due: the first call of the top-level loop is
\* unconditional, later ones need word_index < len(word_list); inside
\* _parse_args every call is unconditional
CallDue ==
  /\ phase = "parse"
  /\ \/ pstack # <<>> /\ pstack[Len(pstack)].state # "closed"
     \/ pstack = <<>> /\ (~started \/ word_index < Len(word_list))

WordAt(i) == word_list[i + 1]

\* word_list[word_index] with the cursor past the end
ParseIndexError ==
  /\ CallDue
  /\ word_index >= Len(word_list)
  /\ phase' = "done"
  /\ outcome' = Raise("IndexError")
  /\ started' = TRUE
  /\ UNCHANGED <<lexVars, word_index, program, pstack, call_in, call_out, last_node,
                 global_var, evalVars>>

\* `if word in FUNCTION_KW`: _parse_args is entered with word_index + 1
ParseFunctionWord ==
  /\ CallDue
  /\ word_index < Len(word_list)
  /\ WordAt(word_index) \in FUNCTION_KW
  /\ pstack' = Append(pstack, Frame(WordAt(word_index), word_index))
  /\ word_index' = word_index + 1
  /\ started' = TRUE
  /\ UNCHANGED <<phase, lexVars, program, call_in, call_out, last_node, global_var,
                 evalVars, outcome>>

\* the call returns [node, word_index] and its caller consumes the node
FinishCall(node, idx_in, idx_out, stack) ==
  LET c == Consume(stack, program, node)
  IN /\ call_in' = idx_in
     /\ call_out' = idx_out
     /\ last_node' = node
     /\ word_index' = idx_out
     /\ pstack' = c.pstack
     /\ program' = c.program
     /\ started' = TRUE
     /\ phase' = IF c.err = "none" THEN "parse" ELSE "done"
     /\ outcome' = IF c.err = "none" THEN outcome ELSE Raise(c.err)
     /\ UNCHANGED <<lexVars, global_var, evalVars>>

\* a token every earlier branch of _parse_node recognised
ParseKnownWord ==
  /\ CallDue
  /\ word_index < Len(word_list)
  /\ WordAt(word_index) \notin FUNCTION_KW
  /\ ~IsFallback(WordAt(word_index))
  /\ LET r == ParseLeaf(WordAt(word_index), word_index)
     IN FinishCall(r.node, word_index, r.idx, pstack)

\* the final else of _parse_node: the token becomes a string literal
ParseUnknownWord ==
  /\ CallDue
  /\ word_index < Len(word_list)
  /\ WordAt(word_index) \notin FUNCTION_KW
  /\ IsFallback(WordAt(word_index))
  /\ LET r == ParseLeaf(WordAt(word_index), word_index)
     IN FinishCall(r.node, word_index, r.idx, pstack)

\* _parse_args leaves its loop on ")": args.append(prog), return; the
\* _parse_node call of the function word returns the func node
ParseArgsReturn ==
  /\ phase = "parse"
  /\ pstack # <<>>
  /\ pstack[Len(pstack)].state = "closed"
  /\ LET f == pstack[Len(pstack)]
     IN FinishCall(FuncNode(f.func, Append(f.args, f.prog)), f.call_in, word_index,
                   SubSeq(pstack, 1, Len(pstack) - 1))

\* a new activation of _evaluate_program: prog_idx = 0, exec_stack = []; args collects the values
\* of the list comprehension of the func branch, wait tells what the
\* activation is waiting for from the activation it started
Activation(prog, gv) ==
  [prog |-> prog, global_var |-> gv, prog_idx |-> 0, exec_stack |-> <<>>,
   args |-> <<>>, wait |-> "none"]

\* the top-level loop ends; evaluate_script passes the program on
ParseReturn ==
  /\ phase = "parse"
  /\ pstack = <<>>
  /\ started
  /\ word_index >= Len(word_list)
  /\ phase' = "eval"
  /\ frames' = <<Activation(program, global_var)>>
  /\ UNCHANGED <<lexVars, parseVars, global_var, outcome>>

parse_program ==
  \/ ParseIndexError \/ ParseFunctionWord \/ ParseKnownWord \/ ParseUnknownWord
  \/ ParseArgsReturn \/ ParseReturn

-----------------------------------------------------------------------------
(* extract_quote *)

RECURSIVE ExtractQuoteFrom(_, _, _, _)
\* the loop of extract_quote from symbol_index on: the text joined and the
\* index returned, or IndexError once symbol_list[symbol_index] is past the end
ExtractQuoteFrom(symbol_index, symbol_list, initiating_symbol, quote_value_list) ==
  IF symbol_index >= Len(symbol_list) THEN Raise("IndexError")
  ELSE IF symbol_list[symbol_index + 1] # initiating_symbol
    THEN ExtractQuoteFrom(symbol_index + 1, symbol_list, initiating_symbol,
                          Append(quote_value_list, symbol_list[symbol_index + 1]))
  ELSE [ok |-> TRUE, val |-> StrV(Join(quote_value_list)), err |-> "none",
        idx |-> symbol_index + 1]

\* extract_quote called with the index after an opening quote token, as in
\* `quote_value, symbol_index = extract_quote(symbol_index + 1, symbol_list, symbol)`
ExtractQuote ==
  /\ phase = "quote"
  /\ LET r == ExtractQuoteFrom(word_index, word_list, word_list[word_index], <<>>)
     IN /\ outcome' = [ok |-> r.ok, val |-> r.val, err |-> r.err]
        /\ word_index' = IF r.ok THEN r.idx ELSE word_index
  /\ phase' = "done"
  /\ UNCHANGED <<lexVars, program, pstack, started, call_in, call_out, last_node,
                 global_var, evalVars>>

-----------------------------------------------------------------------------
(* _run_func *)

NumLess(a, b) == a.n * b.d < b.n * a.d

RECURSIVE StrLess(_, _)
\* Python's < on strs: lexicographic by code point
StrLess(a, b) ==
  IF b = <<>> THEN FALSE
  ELSE IF a = <<>> THEN TRUE
  ELSE IF Head(a) # Head(b) THEN Ord(Head(a)) < Ord(Head(b))
  ELSE StrLess(Tail(a), Tail(b))

Less(a, b) == IF a.t = "num" THEN NumLess(a, b) ELSE StrLess(a.s, b.s)

\* whether < is defined between all members of the list
Comparable(args) ==
  \/ \A k \in 1..Len(args) : args[k].t = "num"
  \/ \A k \in 1..Len(args) : args[k].t = "str"

RECURSIVE MinFrom(_, _)
MinFrom(cur, rest) ==
  IF rest = <<>> THEN cur
  ELSE MinFrom(IF Less(Head(rest), cur) THEN Head(rest) ELSE cur, Tail(rest))

RECURSIVE MaxFrom(_, _)
MaxFrom(cur, rest) ==
  IF rest = <<>> THEN cur
  ELSE MaxFrom(IF Less(cur, Head(rest)) THEN Head(rest) ELSE cur, Tail(rest))

\* min(args) on a list
BuiltinMin(args) ==
  IF args = <<>> THEN Raise("ValueError")
  ELSE IF Len(args) > 1 /\ ~Comparable(args) THEN Raise("TypeError")
  ELSE Ret(MinFrom(Head(args), Tail(args)))

\* max(args) on a list
BuiltinMax(args) ==
  IF args = <<>> THEN Raise("ValueError")
  ELSE IF Len(args) > 1 /\ ~Comparable(args) THEN Raise("TypeError")
  ELSE Ret(MaxFrom(Head(args), Tail(args)))

DictKeys(v) == { p[1] : p \in v.m }
DictGet(v, key) == (CHOOSE p \in v.m : p[1] = key)[2]

RECURSIVE LookupWalk(_, _)
\* the for loop of the lookup branch: `if path not in lookup_step: return None`
\* then `lookup_step = lookup_step[path]`.  `in` is key membership on a dict,
\* a substring test on a str and a TypeError on a number or None; indexing a
\* str with a str is a TypeError
LookupWalk(lookup_path, lookup_step) ==
  IF lookup_path = <<>> THEN Ret(lookup_step)
  ELSE LET path == Head(lookup_path)
       IN IF lookup_step.t = "dict"
          THEN IF path \notin DictKeys(lookup_step) THEN Ret(NoneValue)
               ELSE LookupWalk(Tail(lookup_path), DictGet(lookup_step, path))
          ELSE IF lookup_step.t = "str"
            THEN IF ~SubstrIn(path, lookup_step.s) THEN Ret(NoneValue)
                 ELSE Raise("TypeError")
          ELSE Raise("TypeError")

BuiltinLookup(args, gv) ==
  IF Len(args) > 1 THEN Raise(RuntimeException)
  ELSE IF args = <<>> THEN Raise("IndexError")
  ELSE IF args[1].t # "str" THEN Raise("AttributeError")
  ELSE LookupWalk(Split(args[1].s, "."), gv)

RunFunc(func_name, args, gv) ==
  IF func_name = StrV(<<"m","i","n">>) THEN BuiltinMin(args)
  ELSE IF func_name = StrV(<<"m","a","x">>) THEN BuiltinMax(args)
  ELSE IF func_name = StrV(<<"l","o","o","k","u","p">>) THEN BuiltinLookup(args, gv)
  ELSE Raise(RuntimeException)

-----------------------------------------------------------------------------
(* Python's binary operators on the values of the model *)

RECURSIVE Repeat(_, _)
Repeat(text, k) == IF k <= 0 THEN <<>> ELSE text \o Repeat(text, k - 1)

Add(a, b) ==
  IF a.t = "num" /\ b.t = "num" THEN Ret(Num(a.n * b.d + b.n * a.d, a.d * b.d, a.i /\ b.i))
  ELSE IF a.t = "str" /\ b.t = "str" THEN Ret(StrV(a.s \o b.s))
  ELSE Raise("TypeError")

Sub(a, b) ==
  IF a.t = "num" /\ b.t = "num" THEN Ret(Num(a.n * b.d - b.n * a.d, a.d * b.d, a.i /\ b.i))
  ELSE Raise("TypeError")

\* true division: the quotient is a float
Div(a, b) ==
  IF a.t = "num" /\ b.t = "num"
  THEN IF b.n = 0 THEN Raise("ZeroDivisionError") ELSE Ret(Num(a.n * b.d, a.d * b.n, FALSE))
  ELSE Raise("TypeError")

\* a str times an int repeats the str
Mul(a, b) ==
  IF a.t = "num" /\ b.t = "num" THEN Ret(Num(a.n * b.n, a.d * b.d, a.i /\ b.i))
  ELSE IF a.t = "str" /\ b.t = "num" /\ b.i THEN Ret(StrV(Repeat(a.s, b.n)))
  ELSE IF a.t = "num" /\ a.i /\ b.t = "str" THEN Ret(StrV(Repeat(b.s, a.n)))
  ELSE Raise("TypeError")

\* the if/elif chain on instr["value"]
Arithmatic(op, var1, var2) ==
  IF op = StrV(<<"+">>) THEN Add(var1, var2)
  ELSE IF op = StrV(<<"-">>) THEN Sub(var1, var2)
  ELSE IF op = StrV(<<"/">>) THEN Div(var1, var2)
  ELSE IF op = StrV(<<"*">>) THEN Mul(var1, var2)
  ELSE Raise(RuntimeException)

-----------------------------------------------------------------------------
(* _evaluate_program.  The function calls itself for a function node used  *)
(* as right operand and for every argument sub-program; the activations in *)
(* progress are kept in `frames`, outermost first, and every step acts on  *)
(* the innermost one.  An exception is caught nowhere: it ends the run.    *)

\* `def _evaluate_program(prog, global_var=None)`
DefaultGlobalVar == NoneValue

\* the context of `_evaluate_program([next_node])`, the right operand
OperandGlobalVar(gv) == DefaultGlobalVar

\* the context of `_evaluate_program(arg)`, an argument sub-program
ArgGlobalVar(gv) == DefaultGlobalVar

\* EvalFinish without the stack check for more than one value
EvalFinishTopOnly(stack) ==
  IF stack = <<>> THEN Raise(RuntimeException) ELSE Ret(stack[Len(stack)])

\* the check after the loop and the return
EvalFinish(stack) ==
  IF Len(stack) # 1 THEN Raise(RuntimeException) ELSE Ret(stack[Len(stack)])

Top == frames[Len(frames)]
Instr == Top.prog[Top.prog_idx + 1]

Continue(fs) == [ok |-> TRUE, err |-> "none", frames |-> fs]
Abort(e) == [ok |-> FALSE, err |-> e, frames |-> frames]

ReplaceTop(fs, f) == [fs EXCEPT ![Len(fs)] = f]

\* ApplyOperator with prog_idx advanced past the operator only
ApplyOperatorStepOne(fs, f, var2) ==
  IF f.exec_stack = <<>> THEN Abort("IndexError")
  ELSE LET var1 == f.exec_stack[Len(f.exec_stack)]
           popped == SubSeq(f.exec_stack, 1, Len(f.exec_stack) - 1)
           r == Arithmatic(f.prog[f.prog_idx + 1].value, var1, var2)
       IN IF ~r.ok THEN Abort(r.err)
          ELSE Continue(ReplaceTop(fs, [f EXCEPT !.exec_stack = Append(popped, r.val),
                                                 !.prog_idx = f.prog_idx + 1,
                                                 !.wait = "none"]))

\* `var1 = exec_stack.pop(-1)`, the operator applied, the result pushed and
\* prog_idx advanced by two, in activation f of fs, once var2 is known
ApplyOperator(fs, f, var2) ==
  IF f.exec_stack = <<>> THEN Abort("IndexError")
  ELSE LET var1 == f.exec_stack[Len(f.exec_stack)]
           popped == SubSeq(f.exec_stack, 1, Len(f.exec_stack) - 1)
           r == Arithmatic(f.prog[f.prog_idx + 1].value, var1, var2)
       IN IF ~r.ok THEN Abort(r.err)
          ELSE Continue(ReplaceTop(fs, [f EXCEPT !.exec_stack = Append(popped, r.val),
                                                 !.prog_idx = f.prog_idx + 2,
                                                 !.wait = "none"]))

\* `exec_stack.append(_run_func(func, args, global_var))` and prog_idx += 1,
\* in activation f of fs, once every argument is evaluated
ApplyFunction(fs, f, args) ==
  LET r == RunFunc(f.prog[f.prog_idx + 1].value, args, f.global_var)
  IN IF ~r.ok THEN Abort(r.err)
     ELSE Continue(ReplaceTop(fs, [f EXCEPT !.exec_stack = Append(f.exec_stack, r.val),
                                            !.prog_idx = f.prog_idx + 1,
                                            !.args = <<>>,
                                            !.wait = "none"]))

\* the arithmatic branch up to the right operand
StartOperator ==
  IF Top.prog_idx + 1 >= Len(Top.prog) THEN Abort("IndexError")
  ELSE LET next_node == Top.prog[Top.prog_idx + 2]
       IN IF next_node.type = "var" THEN ApplyOperator(frames, Top, next_node.value)
          ELSE IF next_node.type = "func"
            THEN Continue(Append(ReplaceTop(frames, [Top EXCEPT !.wait = "operand"]),
                                 Activation(<<next_node>>, OperandGlobalVar(Top.global_var))))
          ELSE Abort("RuntimeError")

\* the func branch up to its first argument
StartFunction ==
  IF Instr.args = <<>> THEN ApplyFunction(frames, Top, <<>>)
  ELSE Continue(Append(ReplaceTop(frames, [Top EXCEPT !.wait = "arg"]),
                       Activation(Instr.args[1], ArgGlobalVar(Top.global_var))))

\* the value v returned to the activation that made the call
Resume(fs, v) ==
  LET f == fs[Len(fs)]
  IN IF f.wait = "operand" THEN ApplyOperator(fs, f, v)
     ELSE LET args == Append(f.args, v)
              all == f.prog[f.prog_idx + 1].args
          IN IF Len(args) < Len(all)
             THEN Continue(Append(ReplaceTop(fs, [f EXCEPT !.args = args]),
                                  Activation(all[Len(args) + 1], ArgGlobalVar(f.global_var))))
             ELSE ApplyFunction(fs, f, args)

EvalTake(r) ==
  /\ frames' = r.frames
  /\ phase' = IF r.ok THEN "eval" ELSE "done"
  /\ outcome' = IF r.ok THEN outcome ELSE Raise(r.err)
  /\ UNCHANGED <<lexVars, parseVars, global_var>>

InstrDue ==
  /\ phase = "eval"
  /\ Top.prog_idx < Len(Top.prog)

EvalVar ==
  /\ InstrDue
  /\ Instr.type = "var"
  /\ EvalTake(Continue(ReplaceTop(frames,
         [Top EXCEPT !.exec_stack = Append(Top.exec_stack, Instr.value),
                     !.prog_idx = Top.prog_idx + 1])))

EvalArithmatic ==
  /\ InstrDue
  /\ Instr.type = "arithmatic"
  /\ EvalTake(StartOperator)

EvalFunc ==
  /\ InstrDue
  /\ Instr.type = "func"
  /\ EvalTake(StartFunction)

EvalUnexpected ==
  /\ InstrDue
  /\ Instr.type \notin {"var", "arithmatic", "func"}
  /\ EvalTake(Abort(RuntimeException))

\* the loop of a nested activation is over: the stack check, and the value
\* returns to the activation that called
EvalReturnNested ==
  /\ phase = "eval"
  /\ Len(frames) > 1
  /\ Top.prog_idx >= Len(Top.prog)
  /\ LET r == EvalFinish(Top.exec_stack)
     IN EvalTake(IF r.ok THEN Resume(SubSeq(frames, 1, Len(frames) - 1), r.val)
                 ELSE Abort(r.err))

\* the loop of the outermost activation is over: the stack check, and the
\* value popped and returned to the caller of _evaluate_program
EvalReturn ==
  /\ phase = "eval"
  /\ Len(frames) = 1
  /\ Top.prog_idx >= Len(Top.prog)
  /\ outcome' = EvalFinish(Top.exec_stack)
  /\ frames' = IF Len(Top.exec_stack) = 1
               THEN ReplaceTop(frames, [Top EXCEPT !.exec_stack = <<>>])
               ELSE frames
  /\ phase' = "done"
  /\ UNCHANGED <<lexVars, parseVars, global_var>>

evaluate_program ==
  \/ EvalVar \/ EvalArithmatic \/ EvalFunc \/ EvalUnexpected
  \/ EvalReturnNested \/ EvalReturn

-----------------------------------------------------------------------------
(* Inputs *)

\* min(1,2) + 3
ScriptMinPlusSpaced == <<"m", "i", "n", "(", "1", ",", "2", ")", " ", "+", " ", "3">>
\* min(1,2)+3
ScriptMinPlus == <<"m", "i", "n", "(", "1", ",", "2", ")", "+", "3">>
\* 2-1-1
ScriptSub == <<"2", "-", "1", "-", "1">>
\* 2 - 1 - 1
ScriptSubSpaced == <<"2", " ", "-", " ", "1", " ", "-", " ", "1">>
\* 2+3*4
ScriptMixed == <<"2", "+", "3", "*", "4">>
\* max(1,5,3)
ScriptMax == <<"m", "a", "x", "(", "1", ",", "5", ",", "3", ")">>
\* lookup(sensor.temp)
ScriptLookupTemp == <<"l", "o", "o", "k", "u", "p", "(", "s", "e", "n", "s", "o", "r", ".", "t", "e", "m", "p", ")">>
\* lookup(sensor.humidity)
ScriptLookupHumidity == <<"l", "o", "o", "k", "u", "p", "(", "s", "e", "n", "s", "o", "r", ".", "h", "u", "m", "i", "d", "i", "t", "y", ")">>
\* 'abc
ScriptOpenQuote == <<"'", "a", "b", "c">>
\* 'abc'
ScriptQuoted == <<"'", "a", "b", "c", "'">>
\* 1@
ScriptIllegal == <<"1", "@">>
\* the empty script
ScriptEmpty == <<>>
\* (
ScriptParen == <<"(">>
\* min
ScriptBareFunction == <<"m", "i", "n">>
\* if
ScriptKeyword == <<"i", "f">>
\* 1_000.5
ScriptGrouped == <<"1", "_", "0", "0", "0", ".", "5">>

NamedScripts ==
  { ScriptMinPlusSpaced,
    ScriptMinPlus,
    ScriptSub,
    ScriptSubSpaced,
    ScriptMixed,
    ScriptMax,
    ScriptLookupTemp,
    ScriptLookupHumidity,
    ScriptOpenQuote,
    ScriptQuoted,
    ScriptIllegal,
    ScriptEmpty,
    ScriptParen,
    ScriptBareFunction,
    ScriptKeyword,
    ScriptGrouped }

Sensor == <<"s", "e", "n", "s", "o", "r">>
Temp == <<"t", "e", "m", "p">>

\* {"sensor": {"temp": 21.5}}
SensorContext == DictV({ <<Sensor, DictV({ <<Temp, FloatV(43, 2)>> })>> })

\* the characters scripts are drawn over: one letter, one digit, the
\* designator, an operator, a punctuation character, the line break, both
\* whitespace characters and one illegal character
LexAlphabet == {"a", "1", "_", "+", "(", "\n", " ", "\t", "@"}

SeqsUpTo(S, n) == UNION { [1..k -> S] : k \in 0..n }

\* the tokens token lists are drawn over
TokenAlphabet ==
  { <<"m", "i", "n">>, <<"(">>, <<")">>, <<",">>, <<"1">>, <<"+">>, <<"'">>,
    <<"a", "b", "c">>, <<"i", "f">>, <<" ">> }

\* {"a": 7, "s": {"t": 2}, "w": "ab"}
EvalContext ==
  DictV({ <<<<"a">>, IntV(7)>>,
          <<<<"s">>, DictV({ <<<<"t">>, IntV(2)>> })>>,
          <<<<"w">>, StrV(<<"a", "b">>)>> })

LookupPaths ==
  { <<"a">>, <<"s">>, <<"q">>, <<"s", ".", "t">>, <<"s", ".", "h">>,
    <<"a", ".", "b">>, <<"w", ".", "b">>, <<"w", ".", "x">>,
    <<"s", ".", "t", ".", "x">> }

Lookup == <<"l", "o", "o", "k", "u", "p">>
Min == <<"m", "i", "n">>
Max == <<"m", "a", "x">>

LookupNode(path) == FuncNode(Lookup, << <<VarNode(StrV(path))>> >>)

\* min(lookup(a), 5)
MinOfLookup == FuncNode(Min, << <<LookupNode(<<"a">>)>>, <<VarNode(IntV(5))>> >>)

\* max(1, 5, 3)
MaxOfThree ==
  FuncNode(Max, << <<VarNode(IntV(1))>>, <<VarNode(IntV(5))>>, <<VarNode(IntV(3))>> >>)

LiteralInts == 0..4
Operators == { <<"+">>, <<"-">>, <<"*">>, <<"/">> }

\* the instruction list l1 op1 l2 ... opk l(k+1)
FoldProgram(lits, ops) ==
  [j \in 1..(2 * Len(ops) + 1) |->
     IF j % 2 = 1 THEN VarNode(IntV(lits[(j + 1) \div 2])) ELSE ArithNode(ops[j \div 2])]

EvalNodes ==
  { VarNode(IntV(1)), VarNode(IntV(2)), VarNode(StrV(<<"a", "b">>)),
    ArithNode(<<"+">>), ArithNode(<<"*">>), ArithNode(<<"=">>), PuncNode(<<"(">>),
    MinOfLookup, MaxOfThree, FuncNode(<<"f", "o", "o">>, << <<VarNode(IntV(1))>> >>) }
  \cup { LookupNode(path) : path \in LookupPaths }

-----------------------------------------------------------------------------
(* Specifications *)

\* evaluate_script(script, timezone, global_var) on the named scripts
Init ==
  /\ phase = "lex"
  /\ script \in NamedScripts
  /\ global_var = SensorContext
  /\ char_idx = 0 /\ word_list = <<>> /\ word_buffer = <<>>
  /\ word_index = 0 /\ program = <<>> /\ pstack = <<>> /\ started = FALSE
  /\ call_in = -1 /\ call_out = -1 /\ last_node = NoNode
  /\ frames = <<>> /\ outcome = Pending

Next == decompose_script \/ parse_program \/ evaluate_program

Spec == Init /\ [][Next]_vars

\* decompose_script on every script of at most MaxScriptLen characters
InitLex ==
  /\ phase = "lex"
  /\ script \in SeqsUpTo(LexAlphabet, MaxScriptLen)
  /\ global_var = NoneValue
  /\ char_idx = 0 /\ word_list = <<>> /\ word_buffer = <<>>
  /\ word_index = 0 /\ program = <<>> /\ pstack = <<>> /\ started = FALSE
  /\ call_in = -1 /\ call_out = -1 /\ last_node = NoNode
  /\ frames = <<>> /\ outcome = Pending

NextLex == decompose_script

SpecLex == InitLex /\ [][NextLex]_vars

\* the parser on every token list of at most MaxTokens tokens, and
\* extract_quote on those that open with a quote token
InitParse ==
  /\ word_list \in SeqsUpTo(TokenAlphabet, MaxTokens)
  /\ \/ phase = "parse" /\ word_index = 0
     \/ phase = "quote" /\ word_index = 1 /\ word_list # <<>>
        /\ CharIn(Head(word_list)[1], QUOTE)
  /\ script = <<>> /\ char_idx = 0 /\ word_buffer = <<>>
  /\ global_var = NoneValue
  /\ program = <<>> /\ pstack = <<>> /\ started = FALSE
  /\ call_in = -1 /\ call_out = -1 /\ last_node = NoNode
  /\ frames = <<>> /\ outcome = Pending

NextParse == parse_program \/ ExtractQuote

SpecParse == InitParse /\ [][NextParse]_vars

\* _evaluate_program on instruction lists given directly
InitEval ==
  /\ phase = "eval"
  /\ \/ /\ \E k \in 0..MaxOps :
             \E lits \in [1..(k + 1) -> LiteralInts], ops \in [1..k -> Operators] :
                program = FoldProgram(lits, ops)
        /\ global_var = NoneValue
     \/ /\ \E k \in 0..MaxProgLen : program \in [1..k -> EvalNodes]
        /\ global_var \in {NoneValue, EvalContext}
  /\ script = <<>> /\ char_idx = 0 /\ word_list = <<>> /\ word_buffer = <<>>
  /\ word_index = 0 /\ pstack = <<>> /\ started = FALSE
  /\ call_in = -1 /\ call_out = -1 /\ last_node = NoNode
  /\ frames = <<Activation(program, global_var)>> /\ outcome = Pending

NextEval == evaluate_program

SpecEval == InitEval /\ [][NextEval]_vars


-----------------------------------------------------------------------------
(* Properties *)

IsLegalChar(c) == IsWordChar(c) \/ IsSeparatorChar(c) \/ IsWhiteSpaceChar(c)

\* C1: for a script of legal characters, the tokens decompose_script returns,
\* concatenated in order, are the script.
C1_RoundTrip ==
  (phase = "parse" /\ \A k \in 1..Len(script) : IsLegalChar(script[k]))
    => Join(word_list) = script

IsWhitespaceLiteral(node) ==
  /\ node.type = "var"
  /\ node.value.t = "str"
  /\ \E k \in 1..Len(node.value.s) : IsWhiteSpaceChar(node.value.s[k])

\* C2: evaluating "min(1,2) + 3" returns 4, and no whitespace token becomes
\* an instruction whose value would be pushed on the operand stack.
C2_MinPlusThree ==
  script = ScriptMinPlusSpaced =>
    /\ \A k \in 1..Len(program) : ~IsWhitespaceLiteral(program[k])
    /\ phase = "done" => (outcome.ok /\ outcome.val.t = "num"
                          /\ outcome.val.n = 4 /\ outcome.val.d = 1)

\* Literal (Operator Literal)* over integers
IsFoldShape(prog) ==
  /\ Len(prog) % 2 = 1
  /\ \A k \in 1..Len(prog) :
       IF k % 2 = 1
       THEN prog[k].type = "var" /\ prog[k].value.t = "num" /\ prog[k].value.i
       ELSE prog[k].type = "arithmatic" /\ \E op \in Operators : prog[k].value = StrV(op)

RECURSIVE LeftFold(_)
\* ((l1 op1 l2) op2 l3) ...: the value, or the exception of the first
\* application that raises
LeftFold(prog) ==
  IF Len(prog) = 1 THEN Ret(prog[1].value)
  ELSE LET left == LeftFold(SubSeq(prog, 1, Len(prog) - 2))
       IN IF ~left.ok THEN left
          ELSE Arithmatic(prog[Len(prog) - 1].value, left.val, prog[Len(prog)].value)

LitProgram(a, op1, b, op2, c) ==
  <<VarNode(IntV(a)), ArithNode(<<op1>>), VarNode(IntV(b)), ArithNode(<<op2>>),
    VarNode(IntV(c))>>

\* C3: on Literal (Operator Literal)* the evaluator computes the left-to-right
\* fold: after each operator the stack holds the fold of the instructions
\* consumed and the instruction pointer has moved past operator and right
\* operand; the result is the fold of the whole list (2 - 1 - 1 is 0 and
\* 2 + 3 * 4 is 20), an application that raises ending the run.
C3_LeftToRightFold ==
  (IsFoldShape(program) /\ frames # <<>>) =>
    /\ Len(frames) = 1
    /\ (phase = "eval" /\ frames[1].prog_idx > 0) =>
         /\ frames[1].prog_idx % 2 = 1
         /\ frames[1].prog_idx <= Len(program)
         /\ frames[1].exec_stack =
              <<LeftFold(SubSeq(program, 1, frames[1].prog_idx)).val>>
         /\ LeftFold(SubSeq(program, 1, frames[1].prog_idx)).ok
    /\ phase = "done" => outcome = LeftFold(program)
    /\ (phase = "done" /\ program = LitProgram(2, "-", 1, "-", 1)) =>
         outcome = Ret(IntV(0))
    /\ (phase = "done" /\ program = LitProgram(2, "+", 3, "*", 4)) =>
         outcome = Ret(IntV(20))

C3_Witness ==
  /\ phase = "done"
  /\ program = LitProgram(2, "-", 1, "-", 1)
  /\ outcome = Ret(IntV(0))

SensorTemp == Sensor \o <<".">> \o Temp

\* C4: lookup(sensor.temp) against {"sensor": {"temp": 21.5}} returns 21.5,
\* the argument sub-program of lookup holding the one string "sensor.temp"
\* and no punctuation node.
C4_LookupSensorTemp ==
  script = ScriptLookupTemp =>
    /\ \A k \in 1..Len(pstack) :
         pstack[k].prog \in { <<>>, <<VarNode(StrV(SensorTemp))>> }
    /\ phase = "done" => outcome = Ret(FloatV(43, 2))

RECURSIVE Resolve(_, _)
\* the value at the end of the path when every segment is present, None
\* when a segment is absent (a terminal value has no segments)
Resolve(segments, value) ==
  IF segments = <<>> THEN value
  ELSE IF value.t = "dict" /\ Head(segments) \in DictKeys(value)
    THEN Resolve(Tail(segments), DictGet(value, Head(segments)))
  ELSE NoneValue

IsLookupOf(prog) ==
  /\ Len(prog) = 1
  /\ \E path \in LookupPaths : prog[1] = LookupNode(path)

\* C5: lookup returns the value at the final segment when every segment is
\* present and None, without an error, otherwise.
C5_LookupNeverRaises ==
  (phase = "done" /\ IsLookupOf(program) /\ global_var.t = "dict") =>
    outcome = Ret(Resolve(Split(program[1].args[1][1].value.s, "."), global_var))

\* C6: an activation of _evaluate_program whose loop is over returns the one
\* value of its operand stack when the stack holds exactly one value, and
\* otherwise fails with the runtime error; a run returns a value in no other way.
C6_ExactlyOneValue ==
  [][ /\ (phase = "eval" /\ Top.prog_idx >= Len(Top.prog) /\ Len(Top.exec_stack) # 1)
          => (phase' = "done" /\ outcome' = Raise("RuntimeError"))
      /\ (phase = "eval" /\ outcome'.ok)
          => /\ Len(frames) = 1
             /\ Top.prog_idx >= Len(Top.prog)
             /\ Len(Top.exec_stack) = 1
             /\ outcome'.val = Top.exec_stack[1]
      /\ (phase = "eval" /\ Len(frames') < Len(frames))
          => /\ Top.prog_idx >= Len(Top.prog)
             /\ Len(Top.exec_stack) = 1 ]_vars

C6_Witness ==
  /\ phase = "done"
  /\ program = <<VarNode(IntV(1)), VarNode(IntV(2))>>
  /\ frames[1].prog_idx = 2
  /\ Len(frames[1].exec_stack) = 2
  /\ outcome = Raise("RuntimeError")

OperatorAtEdge(prog) ==
  /\ prog # <<>>
  /\ prog[1].type = "arithmatic" \/ prog[Len(prog)].type = "arithmatic"

\* C7: an instruction list that starts or ends with an operator fails with the
\* runtime error of the language.
C7_RuntimeErrorOnly ==
  (phase = "done" /\ OperatorAtEdge(program)) =>
    (~outcome.ok /\ outcome.err = "RuntimeError")

\* the index of the first token equal to quote at or after index from, or
\* Len(word_list) when there is none
ClosingQuote(from, quote) ==
  IF \E k \in from..(Len(word_list) - 1) : word_list[k + 1] = quote
  THEN CHOOSE k \in from..(Len(word_list) - 1) :
         /\ word_list[k + 1] = quote
         /\ \A j \in from..(k - 1) : word_list[j + 1] # quote
  ELSE Len(word_list)

IsQuoteToken(word) == Len(word) = 1 /\ CharIn(word[1], QUOTE)

\* C8: parsing a quote token yields one string literal made of the tokens up
\* to the matching quote token and a cursor just past it; without a matching
\* quote token it fails with the syntax error (both for _parse_node and for
\* extract_quote).
C8_QuoteScan ==
  /\ (call_in >= 0 /\ IsQuoteToken(word_list[call_in + 1])) =>
       LET close == ClosingQuote(call_in + 1, word_list[call_in + 1])
       IN /\ close < Len(word_list)
          /\ last_node = VarNode(StrV(Join(SubSeq(word_list, call_in + 2, close))))
          /\ call_out = close + 1
  /\ (phase = "done" /\ ~started) =>
       LET close == ClosingQuote(1, word_list[1])
       IN IF close < Len(word_list)
          THEN /\ outcome = Ret(StrV(Join(SubSeq(word_list, 2, close))))
               /\ word_index = close + 1
          ELSE outcome = Raise("SyntaxError")

\* C9: every _parse_node call returns a cursor greater than the one it was given.
C9_CursorAdvances == call_in >= 0 => call_out > call_in

\* 1 + lookup(a)
OnePlusLookup == <<VarNode(IntV(1)), ArithNode(<<"+">>), LookupNode(<<"a">>)>>

\* C10: every activation of the evaluator, at every depth, works on the
\* context the evaluation was given; 1 + lookup(a) and min(lookup(a), 5)
\* see the value lookup(a) has at the top level.
C10_SameContext ==
  /\ \A k \in 1..Len(frames) : frames[k].global_var = global_var
  /\ (phase = "done" /\ global_var = EvalContext /\ program = OnePlusLookup) =>
       outcome = Ret(IntV(8))
  /\ (phase = "done" /\ global_var = EvalContext /\ program = <<MinOfLookup>>) =>
       outcome = Ret(IntV(5))

====
